---------------------------- MODULE Spec2Model ----------------------------
(***************************************************************************)
(* Ideal TV Height Calculator (streamlit_app.py).                          *)
(*                                                                         *)
(* The script main() is re-run from top to bottom on every widget          *)
(* interaction.  The state of the program is the session's widget values   *)
(* (the inputs) together with the values the last run computed.            *)
(*                                                                         *)
(* Numbers.  Python floats are modelled as decimal fixed-point numbers:    *)
(* the integer n stands for the real n / Scale, whatever the unit (inch,   *)
(* cm, m, radian, degree).  Products and quotients are truncated to a      *)
(* multiple of 1/Scale, so every arithmetic step carries an error below    *)
(* 1/Scale where the float carries one below 1e-15 relative.  All          *)
(* intermediate values stay below 2^31.                                     *)
(***************************************************************************)
EXTENDS Integers

VARIABLES
    setup_mode,           \* st.radio "Setup Style"
    tv_size_inch,         \* st.number_input, a plain integer (not scaled)
    eye_level_cm,         \* st.number_input, scaled
    angle_standard,       \* st.radio, a plain integer: 30, 36 or 40
    use_manual_dist,      \* st.checkbox
    manual_dist_m,        \* st.number_input, scaled; its default while hidden
    screen_width_cm,
    screen_height_cm,
    rec_dist_m,
    final_dist_m,
    final_dist_cm,
    tv_centre_height_cm,
    vert_angle_deg,
    tv_bottom_height_cm,
    act_horiz_angle_deg,
    status,               \* how the last run of the calculation ended
    snap                  \* history variable: at most one earlier run

inputs == <<setup_mode, tv_size_inch, eye_level_cm, angle_standard,
            use_manual_dist, manual_dist_m>>

outputs == <<final_dist_m, tv_centre_height_cm, tv_bottom_height_cm,
             vert_angle_deg, act_horiz_angle_deg>>

locals == <<screen_width_cm, screen_height_cm, rec_dist_m, final_dist_cm>>

vars == <<inputs, outputs, locals, status, snap>>

---------------------------------------------------------------------------
(* Fixed-point arithmetic *)

Scale == 1000 * 1000

Abs(x) == IF x < 0 THEN -x ELSE x

Sgn(x) == IF x < 0 THEN -1 ELSE 1

\* a * b for scaled a, b >= 0, truncated; no intermediate product above 2^31
FMulPos(a, b) ==
    LET ah == a \div 1000
        al == a % 1000
        bh == b \div 1000
        bl == b % 1000
    IN  ah * bh + (ah * bl + al * bh + (al * bl) \div 1000) \div 1000

FMul(a, b) == Sgn(a) * Sgn(b) * FMulPos(Abs(a), Abs(b))

\* the next decimal digit of r / b, floor(10 r / b), for 0 <= r < b and
\* b >= 100: the estimate e from b's leading part is the digit or one more
Digit(r, b) ==
    LET bq == b \div 10
        e  == r \div bq
    IN  IF r >= e * bq + (e * (b % 10) + 9) \div 10 THEN e ELSE e - 1

RECURSIVE Frac(_, _, _)
\* the first n decimal digits of r / b, for 0 <= r < b, as an integer:
\* three digits at a time while 1000 r stays below 2^31, else one
Frac(r, b, n) ==
    IF n = 0 THEN 0
    ELSE IF n >= 3 /\ b <= 2147483
    THEN ((r * 1000) \div b) * (10 ^ (n - 3))
           + Frac((r * 1000) % b, b, n - 3)
    ELSE LET d == Digit(r, b)
         IN  d * (10 ^ (n - 1))
               + Frac(10 * (r - d * (b \div 10)) - d * (b % 10), b, n - 1)

\* a / b for scaled a >= 0, b >= 100, truncated
FDivPos(a, b) == (a \div b) * Scale + Frac(a % b, b, 6)

FDiv(a, b) == Sgn(a) * Sgn(b) * FDivPos(Abs(a), Abs(b))

---------------------------------------------------------------------------
(* The math module *)

Pi == 3141593

HalfPi == 1570796

QuarterPi == 785398

\* math.radians
Radians(d) == FMul(d, Pi) \div 180

\* math.degrees
Degrees(r) == FDiv(r * 180, Pi)

\* sine and cosine by their Taylor series (Horner form), for |x| <= 1
Sin(x) ==
    LET x2 == FMul(x, x)
        t4 == Scale - FMul(x2, Scale) \div 72
        t3 == Scale - FMul(x2, t4) \div 42
        t2 == Scale - FMul(x2, t3) \div 20
        t1 == Scale - FMul(x2, t2) \div 6
    IN  FMul(x, t1)

Cos(x) ==
    LET x2 == FMul(x, x)
        t4 == Scale - FMul(x2, Scale) \div 56
        t3 == Scale - FMul(x2, t4) \div 30
        t2 == Scale - FMul(x2, t3) \div 12
    IN  Scale - FMul(x2, t2) \div 2

\* math.tan
Tan(x) == FDiv(Sin(x), Cos(x))

\* arctangent by its Taylor series (Horner form), for |x| <= tan(pi/8)
AtanSeries(x) ==
    LET x2 == FMul(x, x)
        t7 == 76923 - FMul(x2, 66667)
        t6 == 90909 - FMul(x2, t7)
        t5 == 111111 - FMul(x2, t6)
        t4 == 142857 - FMul(x2, t5)
        t3 == 200000 - FMul(x2, t4)
        t2 == 333333 - FMul(x2, t3)
        t1 == Scale - FMul(x2, t2)
    IN  FMul(x, t1)

\* for 0 <= x <= 1: atan x = pi/4 + atan((x - 1) / (x + 1))
AtanUnit(x) ==
    IF x > 414214
    THEN QuarterPi + AtanSeries(FDiv(x - Scale, x + Scale))
    ELSE AtanSeries(x)

\* for x >= 0: atan x = pi/2 - atan(1 / x) when x > 1
AtanPos(x) ==
    IF x > Scale THEN HalfPi - AtanUnit(FDiv(Scale, x)) ELSE AtanUnit(x)

\* math.atan
Atan(x) == IF x < 0 THEN -AtanPos(-x) ELSE AtanPos(x)

---------------------------------------------------------------------------
(* The widgets and their ranges *)

Ergonomic == "Standard Living Room (Ergonomic)"

Reclined == "Home Theater (Reclined)"

SetupModes == {Ergonomic, Reclined}

TvMin == 32

TvMax == 120

TvDefault == 65

EyeMin == 50000000

EyeMax == 150000000

EyeDefault == 92000000

DistMin == 500000

DistMax == 10000000

DistDefault == 3600000

\* how many equal parts the eye-level range and the manual-distance range
\* are cut into; the values tried are the cut points and the default
EyeSteps == 1

DistSteps == 2

TvSizes == TvMin..TvMax

EyeLevels ==
    {EyeMin + ((EyeMax - EyeMin) * k) \div EyeSteps : k \in 0..EyeSteps}
        \cup {EyeDefault}

AngleStandards == {30, 36, 40}

\* as ManualDists, had the distance input been given min_value 0.0
ManualDistsFromZero ==
    {((DistMax - 0) * k) \div DistSteps : k \in 0..DistSteps}
        \cup {DistDefault}

ManualDists ==
    {DistMin + ((DistMax - DistMin) * k) \div DistSteps : k \in 0..DistSteps}
        \cup {DistDefault}

---------------------------------------------------------------------------
(* The calculations of main() *)

WidthFactor == 871570

HeightFactor == 490300

CmPerInch == 2540000

ReclineFactor == 220000

ScreenWidthInch(tv) == tv * WidthFactor

ScreenHeightInch(tv) == tv * HeightFactor

InchToCm(x) == FMul(x, CmPerInch)

\* as RecDistInches, multiplying by the tangent instead of dividing
RecDistInchesTimesTan(w_in, a) ==
    LET angle_rad == Radians(a * Scale)
    IN  FMul(w_in \div 2, Tan(angle_rad \div 2))

RecDistInches(w_in, a) ==
    LET angle_rad == Radians(a * Scale)
    IN  FDiv(w_in \div 2, Tan(angle_rad \div 2))

RecDistM(rec_dist_inches) == FMul(rec_dist_inches, CmPerInch) \div 100

\* as FinalDistM, the ticked box ignored
FinalDistMIgnoringOverride(u, d, rec) == rec

FinalDistM(u, d, rec) == IF u THEN d ELSE rec

FinalDistCm(fdm) == fdm * 100

\* as TvCentreHeightCm, the theater formula in both modes
TvCentreHeightCmNoBranch(m, e, fdc) == e + FMul(fdc, ReclineFactor)

TvCentreHeightCm(m, e, fdc) ==
    IF m = Ergonomic THEN e ELSE e + FMul(fdc, ReclineFactor)

\* as VertAngleDeg, the angle left in radians
VertAngleDegNoConversion(m) ==
    IF m = Ergonomic THEN 0 ELSE Atan(ReclineFactor)

VertAngleDeg(m) ==
    IF m = Ergonomic THEN 0 ELSE Degrees(Atan(ReclineFactor))

\* as TvBottomHeightCm, the whole screen height taken off
TvBottomHeightCmFullHeight(centre, h_cm) == centre - h_cm

TvBottomHeightCm(centre, h_cm) == centre - h_cm \div 2

\* as ActHorizAngleDeg, the whole screen width under the arctangent
ActHorizAngleDegFullWidth(w_cm, fdc) == Degrees(2 * Atan(FDiv(w_cm, fdc)))

ActHorizAngleDeg(w_cm, fdc) == Degrees(2 * Atan(FDiv(w_cm \div 2, fdc)))

\* One run of the calculations, from the widget values to every value the
\* results section reads.  A float division by zero raises
\* ZeroDivisionError and the run ends there.
main(m, tv, e, a, u, d) ==
    LET w_in   == ScreenWidthInch(tv)
        h_in   == ScreenHeightInch(tv)
        w_cm   == InchToCm(w_in)
        h_cm   == InchToCm(h_in)
        rec    == RecDistM(RecDistInches(w_in, a))
        fdm    == FinalDistM(u, d, rec)
        fdc    == FinalDistCm(fdm)
        centre == TvCentreHeightCm(m, e, fdc)
    IN  [ screen_width_cm     |-> w_cm,
          screen_height_cm    |-> h_cm,
          rec_dist_m          |-> rec,
          final_dist_m        |-> fdm,
          final_dist_cm       |-> fdc,
          tv_centre_height_cm |-> centre,
          vert_angle_deg      |-> VertAngleDeg(m),
          tv_bottom_height_cm |-> TvBottomHeightCm(centre, h_cm),
          act_horiz_angle_deg |-> IF fdc = 0 THEN 0
                                  ELSE ActHorizAngleDeg(w_cm, fdc),
          status              |-> IF fdc = 0 THEN "ZeroDivisionError"
                                  ELSE "ok" ]

\* The widgets hold the given values and r is what the run computed.
Store(r, m, tv, e, a, u, d) ==
    /\ setup_mode' = m
    /\ tv_size_inch' = tv
    /\ eye_level_cm' = e
    /\ angle_standard' = a
    /\ use_manual_dist' = u
    /\ manual_dist_m' = d
    /\ screen_width_cm' = r.screen_width_cm
    /\ screen_height_cm' = r.screen_height_cm
    /\ rec_dist_m' = r.rec_dist_m
    /\ final_dist_m' = r.final_dist_m
    /\ final_dist_cm' = r.final_dist_cm
    /\ tv_centre_height_cm' = r.tv_centre_height_cm
    /\ vert_angle_deg' = r.vert_angle_deg
    /\ tv_bottom_height_cm' = r.tv_bottom_height_cm
    /\ act_horiz_angle_deg' = r.act_horiz_angle_deg
    /\ status' = r.status

\* as Rerun, the setup style kept in a global that the run reads before
\* the radio's new value is written to it
RerunWithStaleMode(m, tv, e, a, u, d) ==
    \E r \in {main(setup_mode, tv, e, a, u, d)} : Store(r, m, tv, e, a, u, d)

\* The script runs with the widgets at the given values.
Rerun(m, tv, e, a, u, d) ==
    \E r \in {main(m, tv, e, a, u, d)} : Store(r, m, tv, e, a, u, d)

---------------------------------------------------------------------------
(* The session: every interaction with a widget re-runs the script *)

\* the first run, every widget at its default
Init ==
    /\ \E r \in {main(Ergonomic, TvDefault, EyeDefault, 30, FALSE, DistDefault)} :
        /\ setup_mode = Ergonomic
        /\ tv_size_inch = TvDefault
        /\ eye_level_cm = EyeDefault
        /\ angle_standard = 30
        /\ use_manual_dist = FALSE
        /\ manual_dist_m = DistDefault
        /\ screen_width_cm = r.screen_width_cm
        /\ screen_height_cm = r.screen_height_cm
        /\ rec_dist_m = r.rec_dist_m
        /\ final_dist_m = r.final_dist_m
        /\ final_dist_cm = r.final_dist_cm
        /\ tv_centre_height_cm = r.tv_centre_height_cm
        /\ vert_angle_deg = r.vert_angle_deg
        /\ tv_bottom_height_cm = r.tv_bottom_height_cm
        /\ act_horiz_angle_deg = r.act_horiz_angle_deg
        /\ status = r.status
    /\ snap = {}

SetSetupMode ==
    \E m \in SetupModes :
        Rerun(m, tv_size_inch, eye_level_cm, angle_standard,
              use_manual_dist, manual_dist_m)

\* the size typed in, or stepped by the input's +/- buttons (step=1)
SetTvSize(S) ==
    \E tv \in S \cap TvSizes :
        Rerun(setup_mode, tv, eye_level_cm, angle_standard,
              use_manual_dist, manual_dist_m)

SetEyeLevel(S) ==
    \E e \in S :
        Rerun(setup_mode, tv_size_inch, e, angle_standard,
              use_manual_dist, manual_dist_m)

SetAngleStandard ==
    \E a \in AngleStandards :
        Rerun(setup_mode, tv_size_inch, eye_level_cm, a,
              use_manual_dist, manual_dist_m)

\* the distance input exists only while the box is ticked, and comes back
\* at its default
ToggleManualDist ==
    Rerun(setup_mode, tv_size_inch, eye_level_cm, angle_standard,
          ~use_manual_dist, DistDefault)

SetManualDist(S) ==
    /\ use_manual_dist
    /\ \E d \in S :
        Rerun(setup_mode, tv_size_inch, eye_level_cm, angle_standard,
              TRUE, d)

Next ==
    \/ SetSetupMode /\ UNCHANGED snap
    \/ SetTvSize({tv_size_inch - 1, tv_size_inch + 1, TvMin, TvMax})
         /\ UNCHANGED snap
    \/ SetEyeLevel(EyeLevels) /\ UNCHANGED snap
    \/ SetAngleStandard /\ UNCHANGED snap
    \/ ToggleManualDist /\ UNCHANGED snap
    \/ SetManualDist(ManualDists) /\ UNCHANGED snap

Spec == Init /\ [][Next]_vars

---------------------------------------------------------------------------
(* The session with one earlier run remembered *)

HistTvSizes == {TvDefault, TvMax}

HistEyeLevels == {EyeDefault, EyeMin}

HistDists == {DistDefault, DistMin}

\* Remember the run just made, once; afterwards note whether the widgets
\* have since held other values.
Remember ==
    IF snap = {}
    THEN \E take \in BOOLEAN :
            snap' = IF take
                    THEN {[ins |-> inputs', outs |-> outputs', left |-> FALSE]}
                    ELSE {}
    ELSE snap' = {[s EXCEPT !.left = s.left \/ s.ins # inputs'] : s \in snap}

HistNext ==
    \/ SetSetupMode /\ Remember
    \/ SetTvSize(HistTvSizes) /\ Remember
    \/ SetEyeLevel(HistEyeLevels) /\ Remember
    \/ SetAngleStandard /\ Remember
    \/ ToggleManualDist /\ Remember
    \/ SetManualDist(HistDists) /\ Remember

HistSpec == Init /\ [][HistNext]_vars

---------------------------------------------------------------------------
(* The calculations called on their own, on distances no widget supplies *)

CoreTvSizes == {TvMin, TvDefault, TvMax}

CoreDists == ManualDists \cup {0, -Scale}

CoreInit ==
    /\ setup_mode \in SetupModes
    /\ tv_size_inch \in CoreTvSizes
    /\ eye_level_cm \in EyeLevels
    /\ angle_standard \in AngleStandards
    /\ use_manual_dist = TRUE
    /\ manual_dist_m \in CoreDists
    /\ screen_width_cm = 0
    /\ screen_height_cm = 0
    /\ rec_dist_m = 0
    /\ final_dist_m = 0
    /\ final_dist_cm = 0
    /\ tv_centre_height_cm = 0
    /\ vert_angle_deg = 0
    /\ tv_bottom_height_cm = 0
    /\ act_horiz_angle_deg = 0
    /\ status = "pending"
    /\ snap = {}

CoreCall ==
    /\ status = "pending"
    /\ Rerun(setup_mode, tv_size_inch, eye_level_cm, angle_standard,
             use_manual_dist, manual_dist_m)
    /\ UNCHANGED snap

CoreSpec == CoreInit /\ [][CoreCall]_vars

---------------------------------------------------------------------------
(* Properties *)

\* C1: in ergonomic mode the vertical mounting angle is exactly 0 and the
\* TV centre height is exactly the eye level, whatever the TV size, the
\* eye level and the final distance (recommended or manual).
C1_ErgonomicCentreAtEyeLevel ==
    setup_mode = Ergonomic =>
        /\ vert_angle_deg = 0
        /\ tv_centre_height_cm = eye_level_cm

\* an ergonomic run at a manual distance, with the largest TV
C1_Witness ==
    /\ setup_mode = Ergonomic
    /\ status = "ok"
    /\ use_manual_dist
    /\ manual_dist_m = DistMax
    /\ tv_size_inch = TvMax
    /\ eye_level_cm = EyeMax

\* C2: every run in reclined mode puts the TV centre at eye level plus 0.22
\* times the final distance in cm, and gives a vertical angle of about 12.4
\* degrees that is the same from one reclined run to the next, whatever
\* input changed in between.
C2_ReclinedCentreAndConstantAngle ==
    [][setup_mode' = Reclined =>
          /\ final_dist_cm' % 100 = 0
          /\ tv_centre_height_cm' - eye_level_cm' = 22 * (final_dist_cm' \div 100)
          /\ vert_angle_deg' >= 12350000
          /\ vert_angle_deg' < 12450000
          /\ (setup_mode = Reclined => vert_angle_deg' = vert_angle_deg)]_vars

\* a reclined run at the shortest manual distance, with the smallest TV
C2_Witness ==
    /\ setup_mode = Reclined
    /\ status = "ok"
    /\ use_manual_dist
    /\ manual_dist_m = DistMin
    /\ tv_size_inch = TvMin
    /\ angle_standard = 40
    /\ eye_level_cm = EyeMin

\* C3: the final distance is the manual distance when the box is ticked and
\* the recommended distance otherwise; the run ends without error; and the
\* final distance times 100 is the distance in the reclined centre height
\* and in the actual horizontal angle.
C3_FinalDistance ==
    /\ status = "ok"
    /\ use_manual_dist => final_dist_m = manual_dist_m
    /\ ~use_manual_dist => final_dist_m = rec_dist_m
    /\ final_dist_cm = 100 * final_dist_m
    /\ setup_mode = Reclined =>
          tv_centre_height_cm = eye_level_cm + FMul(100 * final_dist_m, ReclineFactor)
    /\ act_horiz_angle_deg =
          Degrees(2 * Atan(FDiv(screen_width_cm \div 2, 100 * final_dist_m)))

\* a reclined run at the longest manual distance, which is not the
\* recommended one
C3_Witness ==
    /\ use_manual_dist
    /\ manual_dist_m = DistMax
    /\ rec_dist_m # manual_dist_m
    /\ final_dist_cm = 100 * DistMax
    /\ setup_mode = Reclined
    /\ status = "ok"

\* C4: the screen height in cm is the TV size times 0.4903 times 2.54
\* (1.245362 cm per inch of diagonal); the bottom is the centre less half of
\* it, so it is strictly below the centre, and the centre is midway between
\* the bottom and the top (bottom plus screen height).
C4_BottomHalfScreenBelowCentre ==
    /\ screen_height_cm = tv_size_inch * 1245362
    /\ 2 * tv_bottom_height_cm = 2 * tv_centre_height_cm - screen_height_cm
    /\ tv_bottom_height_cm < tv_centre_height_cm
    /\ 2 * tv_centre_height_cm
          = tv_bottom_height_cm + (tv_bottom_height_cm + screen_height_cm)

\* a reclined run, the centre above eye level, with the largest TV
C4_Witness ==
    /\ setup_mode = Reclined
    /\ status = "ok"
    /\ tv_size_inch = TvMax
    /\ tv_centre_height_cm > eye_level_cm

\* C5: at the recommended distance the actual horizontal angle is the
\* chosen field of view to within 0.01 degrees.
C5_RoundTrip ==
    ~use_manual_dist =>
        /\ act_horiz_angle_deg - angle_standard * Scale <= 10000
        /\ angle_standard * Scale - act_horiz_angle_deg <= 10000

\* a run at the recommended distance for 40 degrees, with the largest TV
C5_Witness ==
    /\ ~use_manual_dist
    /\ status = "ok"
    /\ final_dist_m = rec_dist_m
    /\ angle_standard = 40
    /\ tv_size_inch = TvMax

\* C6: from one run to the next, a larger TV at the same field of view
\* gets a larger recommended distance, and a wider field of view at the
\* same TV size a smaller one.
C6_RecommendedDistanceMonotone ==
    [][/\ (tv_size_inch' > tv_size_inch /\ angle_standard' = angle_standard)
             => rec_dist_m' > rec_dist_m
       /\ (angle_standard' > angle_standard /\ tv_size_inch' = tv_size_inch)
             => rec_dist_m' < rec_dist_m]_vars

\* the largest TV at the widest field of view, reached through smaller
\* sizes and narrower fields
C6_Witness ==
    /\ tv_size_inch = TvMax
    /\ angle_standard = 40
    /\ rec_dist_m > 3000000
    /\ rec_dist_m < 4000000

\* C7: the final distance in cm is strictly positive in every run, so the
\* division in the actual horizontal angle never divides by zero.
C7_DistancePositive ==
    /\ final_dist_cm > 0
    /\ status # "ZeroDivisionError"

\* a run at the shortest manual distance
C7_Witness ==
    /\ use_manual_dist
    /\ manual_dist_m = DistMin
    /\ final_dist_cm = 50000000
    /\ status = "ok"

C9_SameInputsSameOutputs ==
    \A s \in snap : s.ins = inputs => s.outs = outputs

\* the widgets are back at the remembered values after holding others
C9_Witness ==
    \E s \in snap : s.left /\ s.ins = inputs

\* C10: the height from the floor to the bottom of the TV is never
\* negative.
C10_BottomAboveFloor == tv_bottom_height_cm >= 0

===========================================================================
